---- MODULE Spec2Model ----
(***************************************************************************)
(* A model of sharebox (src/sharebox.py): the FUSE callbacks of class      *)
(* ShareBox, the two scoped guards AnnexUnlock and CopyOnWrite, and the    *)
(* git / git-annex commands they run through shell_do.                     *)
(*                                                                         *)
(* The backing directory is a map from paths to entries (absent, a         *)
(* git-annex symlink, a regular file, another symlink).  Regular files and *)
(* annex objects live in inodes, and file descriptors point at inodes:     *)
(* `git annex add` moves the file's inode into the object store and        *)
(* `git annex unlock` copies the object into a fresh inode, so a           *)
(* descriptor opened before either command keeps pointing at the inode it  *)
(* was opened on.  git's state is the index, the tree of HEAD and the      *)
(* revision log; `git commit` records a revision only when the index       *)
(* differs from HEAD.                                                      *)
(*                                                                         *)
(* A callback that takes self.rwlock is two steps: Begin acquires the lock *)
(* and runs the guard's __enter__, End runs the body and the guard's       *)
(* __exit__ and releases the lock.  create and open take no lock and are   *)
(* one step each, so they interleave with a callback that holds the lock.  *)
(***************************************************************************)
EXTENDS Integers, Sequences, FiniteSets, TLC

\* ------------------------------------------------------------ bounds
MaxLen == 2
MaxFd == 4
MaxIno == 4
MaxSteps == 4
MaxHandleSteps == 6
MaxLines == 2
MaxCtlSteps == 3
MaxSpecialSteps == 4
MaxCmdSteps == 1
MaxUnlockSteps == 5
MaxLockSteps == 3

\* ------------------------------------------------------------ universe
\* Two names no ignore rule matches and one name matched by a rule
\* (.gitignore holding *.log).
Paths == {"a.txt", "b.txt", "c.log"}
IgnoreRule(p) == p \in {"c.log"}
Bytes == {0, 1}
\* The byte a write carries; 0 is what the files hold before it.
WriteBytes == {1}
Offsets == 0 .. (MaxLen - 1)
Contents == UNION {[1 .. n -> Bytes] : n \in 0 .. MaxLen}
Fds == 1 .. MaxFd
Inos == 1 .. MaxIno

NoIno == <<-1>>
NoFd == [ino |-> 0, mode |-> "closed"]
NoPath == "-"
\* The control file, ./.command once ShareBox.__call__ has put "." before it.
CtlPath == ".command"
NoEnt == [k |-> "none"]
Link(c) == [k |-> "link", key |-> c]
File(i) == [k |-> "file", ino |-> i]
Sym == [k |-> "sym"]
Unwritten == [o \in Offsets |-> -1]

VARIABLES
  tree,           \* the backing directory: path -> entry
  inodes,         \* inode -> bytes (of a regular file or of an annex object)
  objs,           \* the annex object store: key -> inode (0: no such object)
  index,          \* git's staging area: path -> entry
  head,           \* the tree of the last revision
  log,            \* the revision log: the commit messages, oldest first
  fdt,            \* the process's descriptor table: fd -> inode and access mode
  opened_copies,  \* ShareBox.opened_copies: fh -> writable fd (0: no entry)
  hpath,          \* the path the kernel passes with each open handle
  rwlock,         \* ShareBox.rwlock: free, or the callback inside it
  ret,            \* what the last finished callback did and returned
  hw,             \* per open handle: the bytes it wrote with success
  pw,             \* per path: the bytes written with success since it was opened
  flushed,        \* per open handle: a flush or fsync followed its last write
  steps,          \* callbacks started so far
  getall,         \* ShareBox.getall: the mount option getall
  dotfile,        \* what the backing directory holds under the name .command
  dirs,           \* the directories of the backing directory
  ctl             \* the write to the control file that is under way, if any

vars == <<tree, inodes, objs, index, head, log, fdt, opened_copies, hpath,
          rwlock, ret, hw, pw, flushed, steps, getall, dotfile, dirs, ctl>>

\* The variables the callbacks on the control file, on directories and the
\* sync run add to those of the callbacks on files.
ctlvars == <<getall, dotfile, dirs, ctl>>

\* ------------------------------------------------------------ path tests
\* annexed(path): a symlink whose target names .git/annex/objects (the control
\* file is none, whatever the backing directory holds under its name).
annexed(t, p) == p # CtlPath /\ t[p].k = "link"

\* ignored(path): the path is the control file, or it is not among `git
\* ls-files -c -o -d -m --exclude-standard`: neither in the index nor an
\* untracked file that no ignore rule matches.
ignored(w, p) ==
  \/ p = CtlPath
  \/ ~ (w.index[p] # NoEnt \/ (w.tree[p] # NoEnt /\ ~ IgnoreRule(p)))

\* ------------------------------------------------------------ inodes, fds
FreeInos(ino) == {i \in Inos : ino[i] = NoIno}
NewIno(ino) == CHOOSE i \in FreeInos(ino) : \A j \in FreeInos(ino) : i <= j
FreeFds(f) == {d \in Fds : f[d] = NoFd}
NewFd(f) == CHOOSE d \in FreeFds(f) : \A e \in FreeFds(f) : d <= e

\* An inode lives as long as a directory entry, the object store or an open
\* descriptor refers to it.
Referenced(i, t, o, f) ==
  \/ \E p \in Paths : t[p] = File(i)
  \/ \E c \in Contents : o[c] = i
  \/ \E d \in Fds : f[d].ino = i
Gc(ino, t, o, f) ==
  [i \in Inos |-> IF Referenced(i, t, o, f) THEN ino[i] ELSE NoIno]

\* os.write(fd, data) after os.lseek(fd, offset, 0), data one byte long: a
\* write past the end fills the gap with zero bytes.
WriteAt(c, off, b) ==
  [i \in 1 .. (IF Len(c) > off THEN Len(c) ELSE off + 1) |->
     IF i = off + 1 THEN b ELSE IF i <= Len(c) THEN c[i] ELSE 0]

\* f.truncate(length)
TruncateTo(c, n) ==
  [i \in 1 .. n |-> IF i <= Len(c) THEN c[i] ELSE 0]

\* os.read(fd, size) after os.lseek(fd, offset, 0)
ReadAt(c, off, size) ==
  IF off >= Len(c) THEN <<>>
  ELSE SubSeq(c, off + 1, IF off + size <= Len(c) THEN off + size ELSE Len(c))

\* ------------------------------------------------------------ the store
\* The git and git-annex commands run through shell_do, on a record w of the
\* backing directory and git's state.  shell_do's result is ignored by every
\* caller modelled here: a command that fails changes nothing.
World ==
  [tree |-> tree, ino |-> inodes, objs |-> objs, index |-> index,
   head |-> head, log |-> log, cmds |-> {}]

Ran(w, c) == [w EXCEPT !.cmds = @ \cup {c}]

\* git annex unlock: the symlink is replaced by a writable copy of the object.
GitAnnexUnlock(w, p) ==
  LET e == w.tree[p] IN
  IF e.k = "link" /\ w.objs[e.key] # 0 /\ FreeInos(w.ino) # {}
  THEN LET i == NewIno(w.ino) IN
       Ran([w EXCEPT !.ino[i] = w.ino[w.objs[e.key]], !.tree[p] = File(i)],
           "unlock")
  ELSE Ran(w, "unlock")

\* git annex add: a regular file is moved into the object store under the key
\* of its content (dropped when the store holds that key already) and a
\* symlink to the object is left and staged; a symlink is staged as it is.
GitAnnexAdd(w, p) ==
  LET e == w.tree[p] IN
  IF e.k = "file"
  THEN LET c == w.ino[e.ino] IN
       Ran([w EXCEPT !.objs[c] = IF @ = 0 THEN e.ino ELSE @,
                     !.tree[p] = Link(c), !.index[p] = Link(c)], "add")
  ELSE IF e.k \in {"link", "sym"}
  THEN Ran([w EXCEPT !.index[p] = e], "add")
  ELSE Ran(w, "add")

\* git rm: refused unless the path is in the index and the file is either
\* gone from the working tree or equal to both the index and HEAD.
GitRm(w, p) ==
  IF w.index[p] # NoEnt
     /\ (w.tree[p] = NoEnt \/ (w.tree[p] = w.index[p] /\ w.index[p] = w.head[p]))
  THEN Ran([w EXCEPT !.index[p] = NoEnt, !.tree[p] = NoEnt], "rm")
  ELSE Ran(w, "rm")

\* git mv: refused ("bad source") when the source is not in the working tree,
\* when it is not in the index, or when the destination exists.
GitMv(w, old, new) ==
  IF w.tree[old] # NoEnt /\ w.index[old] # NoEnt /\ w.tree[new] = NoEnt
  THEN Ran([w EXCEPT !.tree[new] = w.tree[old], !.tree[old] = NoEnt,
                     !.index[new] = w.index[old], !.index[old] = NoEnt], "mv")
  ELSE Ran(w, "mv")

\* git commit -m: a revision is recorded when something is staged.
GitCommit(w, m) ==
  IF w.index # w.head
  THEN Ran([w EXCEPT !.head = w.index, !.log = Append(@, m)], "commit")
  ELSE Ran(w, "commit")

Msg(m, p) == [msg |-> m, path |-> p]


\* ------------------------------------------------------------ bookkeeping
Free == [op |-> "free"]
\* No write to the control file is under way.
Idle == [state |-> "idle"]
Held == rwlock # Free

\* The callback inside the lock: its arguments and what its guard saw and ran
\* on entry.
Inside(op, p, new, fh, off, b, ann, cmds) ==
  [op |-> op, path |-> p, new |-> new, fh |-> fh, off |-> off, b |-> b,
   ann |-> ann, cmds |-> cmds, err |-> FALSE]

\* What a finished callback did: its result, the store commands it ran, the
\* revisions it added (ncommit, msg), how the code's ignored() classified its
\* path(s) (ign, ign2), whether the path was annexed on entry (ann); for a
\* handle, whether open found the path annexed (oa: the handle is read-only),
\* whether it has an entry in opened_copies (cow), the bytes it has written
\* (hw) and whether a flush followed the last of them (flushed).
Result(op, p, fh, res) ==
  [op |-> op, path |-> p, new |-> p, fh |-> fh, res |-> res, data |-> <<>>,
   ncommit |-> 0, cmds |-> {}, msg |-> "none",
   ign |-> FALSE, ign2 |-> FALSE, ann |-> FALSE, oa |-> FALSE, cow |-> FALSE,
   hw |-> Unwritten, flushed |-> FALSE]

Did(r, w) ==
  [r EXCEPT !.ncommit = Len(w.log) - Len(log),
            !.cmds = w.cmds,
            !.msg = IF Len(w.log) > Len(log) THEN w.log[Len(w.log)].msg ELSE "none"]

HandlesOn(p) == {d \in Fds : hpath[d] = p}

\* The variables of the backing directory and of git take the values of w.
Install(w, f) ==
  /\ tree' = w.tree
  /\ objs' = w.objs
  /\ index' = w.index
  /\ head' = w.head
  /\ log' = w.log
  /\ inodes' = Gc(w.ino, w.tree, w.objs, f)

\* The backing directory holds one annexed file, a.txt, committed.
Init ==
  /\ tree = [p \in Paths |-> IF p = "a.txt" THEN Link(<<0, 0>>) ELSE NoEnt]
  /\ inodes = [i \in Inos |-> IF i = 1 THEN <<0, 0>> ELSE NoIno]
  /\ objs = [c \in Contents |-> IF c = <<0, 0>> THEN 1 ELSE 0]
  /\ index = [p \in Paths |-> IF p = "a.txt" THEN Link(<<0, 0>>) ELSE NoEnt]
  /\ head = index
  /\ log = <<>>
  /\ fdt = [d \in Fds |-> NoFd]
  /\ opened_copies = [d \in Fds |-> 0]
  /\ hpath = [d \in Fds |-> NoPath]
  /\ rwlock = Free
  /\ ret = Result("none", NoPath, 0, "ok")
  /\ hw = [d \in Fds |-> Unwritten]
  /\ pw = [p \in Paths |-> Unwritten]
  /\ flushed = [d \in Fds |-> FALSE]
  /\ getall = FALSE
  /\ dotfile = "none"
  /\ dirs = {}
  /\ ctl = Idle
  /\ steps = 0

\* ------------------------------------------------------------ create, open
\* ShareBox.create: os.open(path, O_WRONLY | O_CREAT, mode).  The kernel sends
\* create for a name that does not exist.  No lock is taken and nothing is
\* entered in opened_copies.
create(p) ==
  /\ tree[p] = NoEnt
  /\ FreeFds(fdt) # {} /\ FreeInos(inodes) # {}
  /\ LET d == NewFd(fdt)
         i == NewIno(inodes)
     IN /\ fdt' = [fdt EXCEPT ![d] = [ino |-> i, mode |-> "w"]]
        /\ tree' = [tree EXCEPT ![p] = File(i)]
        /\ inodes' = [inodes EXCEPT ![i] = <<>>]
        /\ hpath' = [hpath EXCEPT ![d] = p]
        /\ ret' = [Result("create", p, d, "ok") EXCEPT
                     !.ign = ignored(World, p),
                     !.ign2 = ignored([World EXCEPT !.tree[p] = File(i)], p)]
  /\ pw' = [pw EXCEPT ![p] = Unwritten]
  /\ UNCHANGED <<objs, index, head, log, opened_copies, rwlock, hw, flushed>>

\* git annex get: the object a symlink names is fetched from a remote that has
\* it (avail), into a fresh inode.
GitAnnexGet(w, p, avail) ==
  LET e == w.tree[p] IN
  IF e.k = "link" /\ w.objs[e.key] = 0 /\ avail /\ FreeInos(w.ino) # {}
  THEN Ran([w EXCEPT !.ino[NewIno(w.ino)] = e.key,
                     !.objs[e.key] = NewIno(w.ino)], "get")
  ELSE Ran(w, "get")

\* ShareBox.open: an annexed path is opened read-only whatever the flags, after
\* a git annex get if its object is missing (EACCES if it still is); any other
\* file with the caller's flags, here O_RDWR (the kernel sends no write on a
\* handle its caller opened read-only).  The kernel sends open for what
\* getattr shows as a regular file.  No lock is taken.
openAnyFlags(p) ==
  /\ tree[p].k \in {"file", "link"}
  /\ FreeFds(fdt) # {}
  /\ \E avail \in BOOLEAN :
       LET d == NewFd(fdt)
           missing == annexed(tree, p) /\ objs[tree[p].key] = 0
           w == IF missing THEN GitAnnexGet(World, p, avail) ELSE World
           denied == annexed(tree, p) /\ w.objs[tree[p].key] = 0
           f == IF denied THEN fdt
                ELSE [fdt EXCEPT ![d] =
                        IF annexed(tree, p)
                        THEN [ino |-> w.objs[tree[p].key], mode |-> "rw"]
                        ELSE [ino |-> tree[p].ino, mode |-> "rw"]]
       IN /\ fdt' = f
          /\ objs' = w.objs
          /\ inodes' = Gc(w.ino, tree, w.objs, f)
          /\ hpath' = IF denied THEN hpath ELSE [hpath EXCEPT ![d] = p]
          /\ ret' = [Result("open", p, IF denied THEN 0 ELSE d,
                            IF denied THEN "EACCES" ELSE "ok") EXCEPT
                       !.cmds = w.cmds, !.ann = annexed(tree, p),
                       !.ign = ignored(World, p), !.ign2 = ignored(World, p)]
          /\ pw' = [pw EXCEPT ![p] = IF HandlesOn(p) = {} /\ ~ denied
                                     THEN Unwritten ELSE @]
  /\ UNCHANGED <<tree, index, head, log, opened_copies, rwlock, hw, flushed>>
open(p) ==
  /\ tree[p].k \in {"file", "link"}
  /\ FreeFds(fdt) # {}
  /\ \E avail \in BOOLEAN :
       LET d == NewFd(fdt)
           missing == annexed(tree, p) /\ objs[tree[p].key] = 0
           w == IF missing THEN GitAnnexGet(World, p, avail) ELSE World
           denied == annexed(tree, p) /\ w.objs[tree[p].key] = 0
           f == IF denied THEN fdt
                ELSE [fdt EXCEPT ![d] =
                        IF annexed(tree, p)
                        THEN [ino |-> w.objs[tree[p].key], mode |-> "r"]
                        ELSE [ino |-> tree[p].ino, mode |-> "rw"]]
       IN /\ fdt' = f
          /\ objs' = w.objs
          /\ inodes' = Gc(w.ino, tree, w.objs, f)
          /\ hpath' = IF denied THEN hpath ELSE [hpath EXCEPT ![d] = p]
          /\ ret' = [Result("open", p, IF denied THEN 0 ELSE d,
                            IF denied THEN "EACCES" ELSE "ok") EXCEPT
                       !.cmds = w.cmds, !.ann = annexed(tree, p),
                       !.ign = ignored(World, p), !.ign2 = ignored(World, p)]
          /\ pw' = [pw EXCEPT ![p] = IF HandlesOn(p) = {} /\ ~ denied
                                     THEN Unwritten ELSE @]
  /\ UNCHANGED <<tree, index, head, log, opened_copies, rwlock, hw, flushed>>

\* ------------------------------------------------------------ CopyOnWrite
\* CopyOnWrite.__enter__: with unlock=True, the first write through fh to an
\* annexed path unlocks it and installs a write-only descriptor on the copy.
\* When the object is missing the unlock fails, the path is still a dangling
\* symlink and os.open raises ENOENT (err): the body does not run.
CowEnterUnregistered(w, f, oc, p, fh, unlock) ==
  IF unlock /\ oc[fh] = 0 /\ annexed(w.tree, p)
  THEN LET w1 == GitAnnexUnlock(w, p)
           d == NewFd(f)
       IN IF w1.tree[p].k = "file"
          THEN [w |-> w1,
                fdt |-> [f EXCEPT ![d] = [ino |-> w1.tree[p].ino, mode |-> "w"]],
                oc |-> oc, err |-> FALSE]
          ELSE [w |-> w1, fdt |-> f, oc |-> oc, err |-> TRUE]
  ELSE [w |-> w, fdt |-> f, oc |-> oc, err |-> FALSE]
CowEnter(w, f, oc, p, fh, unlock) ==
  IF unlock /\ oc[fh] = 0 /\ annexed(w.tree, p)
  THEN LET w1 == GitAnnexUnlock(w, p)
           d == NewFd(f)
       IN IF w1.tree[p].k = "file"
          THEN [w |-> w1,
                fdt |-> [f EXCEPT ![d] = [ino |-> w1.tree[p].ino, mode |-> "w"]],
                oc |-> [oc EXCEPT ![fh] = d], err |-> FALSE]
          ELSE [w |-> w1, fdt |-> f, oc |-> oc, err |-> TRUE]
  ELSE [w |-> w, fdt |-> f, oc |-> oc, err |-> FALSE]

\* The descriptor __enter__ returns: opened_copies.get(fh, fh).
CowFd(oc, fh) == IF oc[fh] # 0 THEN oc[fh] ELSE fh

\* CopyOnWrite.__exit__ without its test of ignored(path): every released path
\* is added and committed.
CowExitNoIgnore(w, f, oc, p, fh) ==
  LET f1 == IF oc[fh] # 0 THEN [f EXCEPT ![oc[fh]] = NoFd] ELSE f
      oc1 == [oc EXCEPT ![fh] = 0]
  IN [w |-> GitCommit(GitAnnexAdd(w, p), Msg("changed", p)), fdt |-> f1, oc |-> oc1]

\* CopyOnWrite.__exit__ with commit=True: the writable descriptor of fh is
\* closed and its entry deleted, then the path is added and committed unless
\* it is ignored.
CowExit(w, f, oc, p, fh) ==
  LET f1 == IF oc[fh] # 0 THEN [f EXCEPT ![oc[fh]] = NoFd] ELSE f
      oc1 == [oc EXCEPT ![fh] = 0]
      w1 == IF ~ ignored(w, p)
            THEN GitCommit(GitAnnexAdd(w, p), Msg("changed", p))
            ELSE w
  IN [w |-> w1, fdt |-> f1, oc |-> oc1]

\* ------------------------------------------------------------ write
\* ShareBox.write on a path other than the control file, one byte of data.
writeBeginAgain(fh, off, b) ==
  /\ ~ Held
  /\ hpath[fh] # NoPath
  /\ annexed(tree, hpath[fh]) => (FreeFds(fdt) # {} /\ FreeInos(inodes) # {})
  /\ LET p == hpath[fh]
         r == CowEnter(World, fdt, [opened_copies EXCEPT ![fh] = 0], p, fh, TRUE)
     IN /\ fdt' = r.fdt
        /\ opened_copies' = IF r.oc[fh] # 0 THEN r.oc ELSE opened_copies
        /\ Install(r.w, r.fdt)
        /\ rwlock' = [Inside("write", p, p, fh, off, b, annexed(tree, p), r.w.cmds)
                        EXCEPT !.err = r.err]
  /\ UNCHANGED <<hpath, ret, hw, pw, flushed>>
writeBegin(fh, off, b) ==
  /\ ~ Held
  /\ hpath[fh] # NoPath
  /\ (opened_copies[fh] = 0 /\ annexed(tree, hpath[fh]))
       => (FreeFds(fdt) # {} /\ FreeInos(inodes) # {})
  /\ LET p == hpath[fh]
         r == CowEnter(World, fdt, opened_copies, p, fh, TRUE)
     IN /\ fdt' = r.fdt
        /\ opened_copies' = r.oc
        /\ Install(r.w, r.fdt)
        /\ rwlock' = [Inside("write", p, p, fh, off, b, annexed(tree, p), r.w.cmds)
                        EXCEPT !.err = r.err]
  /\ UNCHANGED <<hpath, ret, hw, pw, flushed>>

\* os.lseek(fh_, offset, 0); os.write(fh_, data): EBADF on a descriptor that
\* is open read-only.
writeEnd ==
  /\ Held /\ rwlock.op = "write"
  /\ LET fh == rwlock.fh
         p == rwlock.path
         d == CowFd(opened_copies, fh)
         ok == ~ rwlock.err /\ fdt[d].mode \in {"w", "rw"}
         i == fdt[d].ino
     IN /\ inodes' = IF ok
                     THEN [inodes EXCEPT ![i] = WriteAt(@, rwlock.off, rwlock.b)]
                     ELSE inodes
        /\ hw' = IF ok THEN [hw EXCEPT ![fh][rwlock.off] = rwlock.b] ELSE hw
        /\ pw' = IF ok THEN [pw EXCEPT ![p][rwlock.off] = rwlock.b] ELSE pw
        /\ flushed' = IF ok THEN [flushed EXCEPT ![fh] = FALSE] ELSE flushed
        /\ ret' = [Result("write", p, fh, IF ok THEN "ok"
                                          ELSE IF rwlock.err THEN "ENOENT"
                                          ELSE "EBADF") EXCEPT
                     !.cmds = rwlock.cmds, !.ann = rwlock.ann,
                     !.ign = ignored(World, p), !.ign2 = ignored(World, p),
                     !.data = <<rwlock.b>>, !.oa = (fdt[fh].mode = "r"),
                     !.cow = (opened_copies[fh] # 0), !.hw = hw'[fh]]
  /\ rwlock' = Free
  /\ UNCHANGED <<tree, objs, index, head, log, fdt, opened_copies, hpath>>

\* ------------------------------------------------------------ read
\* ShareBox.read on a path other than the control file: size MaxLen from
\* offset 0, the whole file.
readBegin(fh) ==
  /\ ~ Held
  /\ hpath[fh] # NoPath
  /\ LET p == hpath[fh]
         r == CowEnter(World, fdt, opened_copies, p, fh, FALSE)
     IN /\ fdt' = r.fdt
        /\ opened_copies' = r.oc
        /\ Install(r.w, r.fdt)
        /\ rwlock' = Inside("read", p, p, fh, 0, 0, annexed(tree, p), r.w.cmds)
  /\ UNCHANGED <<hpath, ret, hw, pw, flushed>>

\* os.lseek(fh_, offset, 0); os.read(fh_, size): EBADF on a descriptor that is
\* open write-only.
readEnd ==
  /\ Held /\ rwlock.op = "read"
  /\ LET fh == rwlock.fh
         p == rwlock.path
         d == CowFd(opened_copies, fh)
         ok == fdt[d].mode \in {"r", "rw"}
     IN ret' = [Result("read", p, fh, IF ok THEN "ok" ELSE "EBADF") EXCEPT
                  !.cmds = rwlock.cmds, !.ann = rwlock.ann,
                  !.ign = ignored(World, p), !.ign2 = ignored(World, p),
                  !.data = IF ok THEN ReadAt(inodes[fdt[d].ino], rwlock.off, MaxLen)
                           ELSE <<>>,
                  !.oa = (fdt[fh].mode = "r"),
                  !.cow = (opened_copies[fh] # 0), !.hw = hw[fh],
                  !.flushed = flushed[fh]]
  /\ rwlock' = Free
  /\ UNCHANGED <<tree, inodes, objs, index, head, log, fdt, opened_copies,
                 hpath, hw, pw, flushed>>

\* ------------------------------------------------------------ flush, fsync
\* ShareBox.flush and ShareBox.fsync, which have the same body: os.fsync(fh_)
\* under the guard.
fsyncBeginUnlock(fh) ==
  /\ ~ Held
  /\ hpath[fh] # NoPath
  /\ (opened_copies[fh] = 0 /\ annexed(tree, hpath[fh]))
       => (FreeFds(fdt) # {} /\ FreeInos(inodes) # {})
  /\ LET p == hpath[fh]
         r == CowEnter(World, fdt, opened_copies, p, fh, TRUE)
     IN /\ fdt' = r.fdt
        /\ opened_copies' = r.oc
        /\ Install(r.w, r.fdt)
        /\ rwlock' = Inside("fsync", p, p, fh, 0, 0, annexed(tree, p), r.w.cmds)
  /\ UNCHANGED <<hpath, ret, hw, pw, flushed>>
fsyncBegin(fh) ==
  /\ ~ Held
  /\ hpath[fh] # NoPath
  /\ LET p == hpath[fh]
         r == CowEnter(World, fdt, opened_copies, p, fh, FALSE)
     IN /\ fdt' = r.fdt
        /\ opened_copies' = r.oc
        /\ Install(r.w, r.fdt)
        /\ rwlock' = Inside("fsync", p, p, fh, 0, 0, annexed(tree, p), r.w.cmds)
  /\ UNCHANGED <<hpath, ret, hw, pw, flushed>>

fsyncEnd ==
  /\ Held /\ rwlock.op = "fsync"
  /\ ret' = [Result(rwlock.op, rwlock.path, rwlock.fh, "ok") EXCEPT
               !.cmds = rwlock.cmds, !.ann = rwlock.ann,
               !.ign = ignored(World, rwlock.path),
               !.ign2 = ignored(World, rwlock.path),
               !.hw = hw[rwlock.fh], !.flushed = hw[rwlock.fh] # Unwritten]
  /\ flushed' = [flushed EXCEPT ![rwlock.fh] = hw[rwlock.fh] # Unwritten]
  /\ rwlock' = Free
  /\ UNCHANGED <<tree, inodes, objs, index, head, log, fdt, opened_copies,
                 hpath, hw, pw>>

\* ------------------------------------------------------------ release
\* ShareBox.release: the guard with commit=True around os.close(fh).
releaseBegin(fh) ==
  /\ ~ Held
  /\ hpath[fh] # NoPath
  /\ LET p == hpath[fh]
         r == CowEnter(World, fdt, opened_copies, p, fh, FALSE)
     IN /\ fdt' = r.fdt
        /\ opened_copies' = r.oc
        /\ Install(r.w, r.fdt)
        /\ rwlock' = Inside("release", p, p, fh, 0, 0, annexed(tree, p), r.w.cmds)
  /\ UNCHANGED <<hpath, ret, hw, pw, flushed>>

releaseEnd ==
  /\ Held /\ rwlock.op = "release"
  /\ LET fh == rwlock.fh
         p == rwlock.path
         w0 == [World EXCEPT !.cmds = rwlock.cmds]
         r == CowExit(w0, [fdt EXCEPT ![fh] = NoFd], opened_copies, p, fh)
     IN /\ fdt' = r.fdt
        /\ opened_copies' = r.oc
        /\ Install(r.w, r.fdt)
        /\ ret' = [Did(Result("release", p, fh, "ok"), r.w) EXCEPT
                     !.ann = rwlock.ann, !.ign = ignored(w0, p),
                     !.ign2 = ignored(r.w, p), !.hw = hw[fh],
                     !.oa = (fdt[fh].mode = "r"),
                     !.cow = (opened_copies[fh] # 0)]
        /\ hpath' = [hpath EXCEPT ![fh] = NoPath]
        /\ hw' = [hw EXCEPT ![fh] = Unwritten]
        /\ flushed' = [flushed EXCEPT ![fh] = FALSE]
  /\ rwlock' = Free
  /\ UNCHANGED <<pw>>

\* ------------------------------------------------------------ AnnexUnlock
\* AnnexUnlock.__enter__: the path is unlocked if it was annexed when the
\* guard was built.
UnlockEnter(w, p, ann) == IF ann THEN GitAnnexUnlock(w, p) ELSE w

\* AnnexUnlock.__exit__: added and committed if it was annexed on entry.
UnlockExit(w, p, ann) ==
  IF ann THEN GitCommit(GitAnnexAdd(w, p), Msg("changed", p)) ELSE w

\* ShareBox.chmod and ShareBox.chown, which differ in the attribute they set
\* only.  The kernel sends them for a name that exists.
chattrBegin(p) ==
  /\ ~ Held
  /\ tree[p] # NoEnt
  /\ annexed(tree, p) => FreeInos(inodes) # {}
  /\ Install(UnlockEnter(World, p, annexed(tree, p)), fdt)
  /\ rwlock' = Inside("chattr", p, p, 0, 0, 0, annexed(tree, p),
                      UnlockEnter(World, p, annexed(tree, p)).cmds)
  /\ UNCHANGED <<fdt, opened_copies, hpath, ret, hw, pw, flushed>>

\* os.chmod / os.chown follow a symlink: ENOENT on one that dangles.  The
\* mode and the owner are not part of the model.
chattrEndSkipOnError ==
  /\ Held /\ rwlock.op = "chattr"
  /\ LET p == rwlock.path
         w0 == [World EXCEPT !.cmds = rwlock.cmds]
         w1 == IF tree[p].k = "file" THEN UnlockExit(w0, p, rwlock.ann) ELSE w0
     IN /\ Install(w1, fdt)
        /\ ret' = [Did(Result(rwlock.op, p, 0,
                              IF tree[p].k = "file" THEN "ok" ELSE "ENOENT"), w1)
                     EXCEPT !.ann = rwlock.ann, !.ign = ignored(w0, p),
                            !.ign2 = ignored(w1, p)]
  /\ rwlock' = Free
  /\ UNCHANGED <<fdt, opened_copies, hpath, hw, pw, flushed>>
chattrEnd ==
  /\ Held /\ rwlock.op = "chattr"
  /\ LET p == rwlock.path
         w0 == [World EXCEPT !.cmds = rwlock.cmds]
         w1 == UnlockExit(w0, p, rwlock.ann)
     IN /\ Install(w1, fdt)
        /\ ret' = [Did(Result(rwlock.op, p, 0,
                              IF tree[p].k = "file" THEN "ok" ELSE "ENOENT"), w1)
                     EXCEPT !.ann = rwlock.ann, !.ign = ignored(w0, p),
                            !.ign2 = ignored(w1, p)]
  /\ rwlock' = Free
  /\ UNCHANGED <<fdt, opened_copies, hpath, hw, pw, flushed>>

\* ShareBox.truncate on a path other than the control file.
truncateBegin(p, n) ==
  /\ ~ Held
  /\ tree[p] # NoEnt
  /\ annexed(tree, p) => FreeInos(inodes) # {}
  /\ Install(UnlockEnter(World, p, annexed(tree, p)), fdt)
  /\ rwlock' = Inside("truncate", p, p, 0, n, 0, annexed(tree, p),
                      UnlockEnter(World, p, annexed(tree, p)).cmds)
  /\ UNCHANGED <<fdt, opened_copies, hpath, ret, hw, pw, flushed>>

\* open(path, 'r+') then f.truncate(length); the guard's exit runs whether or
\* not the body raised.
truncateEnd ==
  /\ Held /\ rwlock.op = "truncate"
  /\ LET p == rwlock.path
         n == rwlock.off
         ok == tree[p].k = "file"
         w0 == [World EXCEPT !.cmds = rwlock.cmds]
         w1 == IF ok THEN [w0 EXCEPT !.ino[tree[p].ino] = TruncateTo(@, n)] ELSE w0
         w2 == UnlockExit(w1, p, rwlock.ann)
         cut(h) == [o \in Offsets |-> IF o < n THEN h[o] ELSE -1]
     IN /\ Install(w2, fdt)
        /\ ret' = [Did(Result("truncate", p, 0, IF ok THEN "ok" ELSE "ENOENT"), w2)
                     EXCEPT !.ann = rwlock.ann, !.ign = ignored(w0, p),
                            !.ign2 = ignored(w2, p)]
        /\ hw' = [d \in Fds |-> IF ok /\ hpath[d] = p THEN cut(hw[d]) ELSE hw[d]]
        /\ pw' = [pw EXCEPT ![p] = IF ok THEN cut(@) ELSE @]
  /\ rwlock' = Free
  /\ UNCHANGED <<fdt, opened_copies, hpath, flushed>>

\* ------------------------------------------------------------ rename
\* ShareBox.rename.  The kernel sends it for an old name that exists; a new
\* name that has open handles is first moved aside by libfuse (to a hidden
\* name, outside Paths), so new has no open handle unless it is old itself.
renameBegin(old, new) ==
  /\ ~ Held
  /\ tree[old] # NoEnt
  /\ old # new => HandlesOn(new) = {}
  /\ rwlock' = Inside("rename", old, new, 0, 0, 0, annexed(tree, old), {})
  /\ UNCHANGED <<tree, inodes, objs, index, head, log, fdt, opened_copies,
                 hpath, ret, hw, pw, flushed>>

\* os.rename(old, new)
OsRename(w, old, new) ==
  IF old = new \/ w.tree[old] = NoEnt THEN w
  ELSE [w EXCEPT !.tree[new] = w.tree[old], !.tree[old] = NoEnt]

\* The body of rename under the lock (lines 412-424).
RenameBody(w, old, new) ==
  LET w1 == IF ~ ignored(w, old) THEN GitAnnexAdd(w, old) ELSE w
      w2 == OsRename(w1, old, new)
  IN IF ignored(w2, old) \/ ignored(w2, new)
     THEN LET w3 == IF ~ ignored(w2, old)
                    THEN GitCommit(GitRm(w2, old), Msg("moved to ignored", old))
                    ELSE w2
          IN IF ~ ignored(w3, new)
             THEN GitCommit(GitAnnexAdd(w3, new), Msg("moved from ignored", new))
             ELSE w3
     ELSE GitCommit(GitMv(w2, old, new), Msg("moved", old))

renameEnd ==
  /\ Held /\ rwlock.op = "rename"
  /\ LET old == rwlock.path
         new == rwlock.new
         w0 == [World EXCEPT !.cmds = rwlock.cmds]
         w1 == IF ~ ignored(w0, old) THEN GitAnnexAdd(w0, old) ELSE w0
         w2 == OsRename(w1, old, new)
         w9 == RenameBody(w0, old, new)
     IN /\ Install(w9, fdt)
        /\ ret' = [Did(Result("rename", old, 0, "ok"), w9) EXCEPT
                     !.new = new, !.ann = rwlock.ann,
                     !.ign = ignored(w2, old), !.ign2 = ignored(w2, new)]
        /\ hpath' = [d \in Fds |-> IF hpath[d] = old THEN new ELSE hpath[d]]
        /\ pw' = IF old = new THEN pw
                 ELSE [pw EXCEPT ![new] = pw[old], ![old] = Unwritten]
  /\ rwlock' = Free
  /\ UNCHANGED <<fdt, opened_copies, hw, flushed>>

\* ------------------------------------------------------------ unlink
\* ShareBox.unlink.  The kernel sends it for a name that exists; libfuse moves
\* a name with open handles aside instead of unlinking it.
unlinkBeginNoLock(p) ==
  /\ tree[p] # NoEnt
  /\ HandlesOn(p) = {}
  /\ rwlock' = Inside("unlink", p, p, 0, 0, 0, annexed(tree, p), {})
  /\ UNCHANGED <<tree, inodes, objs, index, head, log, fdt, opened_copies,
                 hpath, ret, hw, pw, flushed>>
unlinkBegin(p) ==
  /\ ~ Held
  /\ tree[p] # NoEnt
  /\ HandlesOn(p) = {}
  /\ rwlock' = Inside("unlink", p, p, 0, 0, 0, annexed(tree, p), {})
  /\ UNCHANGED <<tree, inodes, objs, index, head, log, fdt, opened_copies,
                 hpath, ret, hw, pw, flushed>>

\* The body of unlink under the lock (lines 443-446).
UnlinkBody(w, p) ==
  LET w1 == [w EXCEPT !.tree[p] = NoEnt]
  IN IF ~ ignored(w1, p)
     THEN GitCommit(GitRm(w1, p), Msg("removed", p))
     ELSE w1

unlinkEnd ==
  /\ Held /\ rwlock.op = "unlink"
  /\ LET p == rwlock.path
         w0 == [World EXCEPT !.cmds = rwlock.cmds]
         w1 == UnlinkBody(w0, p)
     IN /\ Install(w1, fdt)
        /\ ret' = [Did(Result("unlink", p, 0, "ok"), w1) EXCEPT
                     !.ann = rwlock.ann, !.ign = ignored(w0, p),
                     !.ign2 = ignored([w0 EXCEPT !.tree[p] = NoEnt], p)]
        /\ pw' = [pw EXCEPT ![p] = Unwritten]
  /\ rwlock' = Free
  /\ UNCHANGED <<fdt, opened_copies, hpath, hw, flushed>>

\* ------------------------------------------------------------ symlink
\* ShareBox.symlink(target, source): a symlink at target whose content is not
\* an annex object.  The kernel sends it for a name that does not exist.
symlinkBegin(p) ==
  /\ ~ Held
  /\ tree[p] = NoEnt
  /\ rwlock' = Inside("symlink", p, p, 0, 0, 0, FALSE, {})
  /\ UNCHANGED <<tree, inodes, objs, index, head, log, fdt, opened_copies,
                 hpath, ret, hw, pw, flushed>>

\* The body of symlink under the lock (lines 432-436); os.symlink raises
\* EEXIST when a create got there first.
SymlinkBody(w, p) ==
  IF w.tree[p] # NoEnt THEN w
  ELSE LET w1 == [w EXCEPT !.tree[p] = Sym]
       IN IF ~ ignored(w1, p)
          THEN GitCommit(GitAnnexAdd(w1, p), Msg("created symlink", p))
          ELSE w1

symlinkEnd ==
  /\ Held /\ rwlock.op = "symlink"
  /\ LET p == rwlock.path
         w0 == [World EXCEPT !.cmds = rwlock.cmds]
         w1 == SymlinkBody(w0, p)
     IN /\ Install(w1, fdt)
        /\ ret' = [Did(Result("symlink", p, 0,
                              IF tree[p] = NoEnt THEN "ok" ELSE "EEXIST"), w1)
                     EXCEPT !.ign = ignored(w0, p), !.ign2 = ignored(w1, p)]
        /\ pw' = [pw EXCEPT ![p] = IF tree[p] = NoEnt THEN Unwritten ELSE @]
  /\ rwlock' = Free
  /\ UNCHANGED <<fdt, opened_copies, hpath, hw, flushed>>

\* ------------------------------------------------------------ sync
\* The names `git remote show` prints, in its order.
Remotes == <<"r1", "r2">>

\* What the master branch of a remote holds that the local one may not: r1 has
\* added b.txt, r2 has changed a.txt.  The objects are on the remotes.
RemoteChange(r) ==
  IF r = "r1" THEN [path |-> "b.txt", ent |-> Link(<<1>>)]
  ELSE [path |-> "a.txt", ent |-> Link(<<1, 1>>)]

\* How a `git merge` ends: "ok", or "conflict" when the histories disagree.
MergeOutcomes == {"ok", "conflict"}

\* The commands of a sync run in the order they ran.
Tr(w, c) == [w EXCEPT !.trace = Append(@, c)]

\* git merge <remote>/master succeeds when the histories agree and the file
\* it has to write is neither modified nor an untracked file in the way.
MergeOk(w, r, out) ==
  out = "ok" /\ w.tree[RemoteChange(r).path] = w.head[RemoteChange(r).path]

\* A merge that succeeds writes the remote's change to the working tree and
\* the index and records it itself (a fast-forward or a merge commit); one
\* that fails is undone by the reset that follows.
GitMerge(w, r, out) ==
  LET c == RemoteChange(r) IN
  IF MergeOk(w, r, out) /\ w.head[c.path] # c.ent
  THEN Ran([w EXCEPT !.tree[c.path] = c.ent, !.index[c.path] = c.ent,
                     !.head[c.path] = c.ent,
                     !.log = Append(@, Msg("Merge", r))], "merge")
  ELSE Ran(w, "merge")

\* git reset --hard: the index and the tracked files are those of HEAD again.
GitResetHard(w) ==
  Ran([w EXCEPT !.index = w.head,
                !.tree = [p \in Paths |->
                            IF w.head[p] # NoEnt THEN w.head[p]
                            ELSE IF w.index[p] # NoEnt THEN NoEnt
                            ELSE w.tree[p]]], "reset")

\* git clean -f: the untracked files that no ignore rule matches are removed.
GitCleanF(w) ==
  Ran([w EXCEPT !.tree = [p \in Paths |->
                            IF w.index[p] = NoEnt /\ ~ IgnoreRule(p) THEN NoEnt
                            ELSE w.tree[p]]], "clean")

\* git annex get . : every missing object the remotes have is fetched.
RECURSIVE GitAnnexGetAll(_, _)
GitAnnexGetAll(w, ps) ==
  IF ps = {} THEN w
  ELSE LET p == CHOOSE q \in ps : TRUE
       IN GitAnnexGetAll(GitAnnexGet(w, p, TRUE), ps \ {p})

\* The loop of ShareBox.sync over the remotes from the i-th on (lines 463-480);
\* outs[i] is how the merge of the i-th remote ends.
RECURSIVE SyncLoop(_, _, _, _, _)
SyncLoop(w, i, manual_merge, outs, ga) ==
  IF i > Len(Remotes) THEN w
  ELSE LET remote == Remotes[i]
           w1 == Tr(GitMerge(w, remote, outs[i]),
                    <<"merge", remote,
                      IF MergeOk(w, remote, outs[i]) THEN "ok" ELSE "failed">>)
           w2 == IF remote = "" THEN w
                 ELSE IF ~ MergeOk(w, remote, outs[i])
                 THEN IF manual_merge
                      THEN Tr(GitCleanF(Tr(GitResetHard(
                             Tr(w1, <<"notify", "invoked">>)),
                             <<"reset", remote>>)), <<"clean", remote>>)
                      ELSE Tr(Tr(GitCleanF(Tr(GitResetHard(w1),
                             <<"reset", remote>>)), <<"clean", remote>>),
                             <<"notify", "required">>)
                 ELSE LET w3 == IF ga
                                THEN Tr(GitAnnexGetAll(w1, Paths), <<"get", ".">>)
                                ELSE w1
                          w4 == Tr(GitCommit(w3, Msg("merged with", remote)),
                                   <<"commit", remote>>)
                      IN [w4 EXCEPT !.merged = w4.tree]
       IN SyncLoop(w2, i + 1, manual_merge, outs, ga)

\* The body of ShareBox.sync under the lock (lines 459-480).
SyncBody(w, manual_merge, outs, ga) ==
  SyncLoop(Tr(Ran(w, "fetch"), <<"fetch", "all">>), 1, manual_merge, outs, ga)

\* World with the trace of a sync run and the working tree as the last merge
\* that succeeded left it.
SyncWorld ==
  [tree |-> tree, ino |-> inodes, objs |-> objs, index |-> index,
   head |-> head, log |-> log, cmds |-> {}, trace |-> <<>>, merged |-> tree]

\* ------------------------------------------------------------ control file
\* The lines a payload is made of: the three commands, a line that is no
\* command and an empty line.  A payload is its lines joined by "\n".
CmdLines == {"sync", "merge", "get a.txt", "status", ""}
Payloads == UNION {[1 .. n -> CmdLines] : n \in 1 .. MaxLines}

\* len(data)
LineLen(l) ==
  IF l = "sync" THEN 4 ELSE IF l = "merge" THEN 5
  ELSE IF l = "get a.txt" THEN 9 ELSE IF l = "status" THEN 6 ELSE 0
RECURSIVE DataLen(_)
DataLen(data) ==
  IF Len(data) = 0 THEN 0
  ELSE IF Len(data) = 1 THEN LineLen(data[1])
  ELSE LineLen(data[1]) + 1 + DataLen(Tail(data))

\* text.strip().split('\n'): the newlines at both ends of the payload go, so
\* no empty line is left at either end; an empty payload is one empty line.
RECURSIVE StripSplit(_)
StripSplit(data) ==
  IF Len(data) = 0 THEN <<"">>
  ELSE IF data[1] = "" THEN StripSplit(Tail(data))
  ELSE IF data[Len(data)] = "" THEN StripSplit(SubSeq(data, 1, Len(data) - 1))
  ELSE data

\* What dotcommand does for one line (lines 450-455): a sync run, with
\* manual_merge for `merge`, a `git annex get <pathspec>`, or nothing.
DoLineElif(command) ==
  IF command = "sync" \/ command = "merge"
  THEN <<[kind |-> "sync", manual_merge |-> FALSE]>>
  ELSE IF command = "get a.txt" THEN <<[kind |-> "get", path |-> "a.txt"]>>
  ELSE <<>>
DoLine(command) ==
  IF command = "sync" THEN <<[kind |-> "sync", manual_merge |-> FALSE]>>
  ELSE IF command = "merge" THEN <<[kind |-> "sync", manual_merge |-> TRUE]>>
  ELSE IF command = "get a.txt" THEN <<[kind |-> "get", path |-> "a.txt"]>>
  ELSE <<>>

\* ShareBox.dotcommand: what the lines of the payload make it do, in order.
RECURSIVE DoLines(_)
DoLines(commands) ==
  IF Len(commands) = 0 THEN <<>>
  ELSE DoLine(commands[1]) \o DoLines(Tail(commands))
dotcommand(text) == DoLines(StripSplit(text))

\* A callback on the control file or on a directory starts.
CtlStarts(n) == steps < n /\ steps' = steps + 1

filevars == <<tree, inodes, objs, index, head, log, fdt, opened_copies, hpath,
              hw, pw, flushed>>

\* ShareBox.write on the control file: dotcommand(data), then len(data).
ctlWrite(data) ==
  /\ ctl = Idle
  /\ ctl' = [state |-> "run", data |-> data, todo |-> dotcommand(data),
             ran |-> <<>>]
  /\ UNCHANGED <<filevars, rwlock, ret, getall, dotfile, dirs>>

\* ShareBox.sync: `with sharebox.rwlock`, the lock of the mounted ShareBox.
syncBegin ==
  /\ ctl # Idle /\ ctl.todo # <<>> /\ ctl.todo[1].kind = "sync"
  /\ ~ Held
  /\ rwlock' = [op |-> "sync", manual_merge |-> ctl.todo[1].manual_merge,
                blocked |-> FALSE]
  /\ UNCHANGED <<filevars, ret, steps, ctlvars>>

\* shell_do waits for the command without reading the pipe it gave it as
\* stdout (lines 86-88): a merge that reports more files than the pipe holds
\* never ends, and neither does the sync run.
syncBlock ==
  /\ Held /\ rwlock.op = "sync" /\ ~ rwlock.blocked
  /\ rwlock' = [rwlock EXCEPT !.blocked = TRUE]
  /\ UNCHANGED <<filevars, ret, steps, ctlvars>>

syncEnd(outs) ==
  /\ Held /\ rwlock.op = "sync" /\ ~ rwlock.blocked
  /\ LET w == SyncBody(SyncWorld, rwlock.manual_merge, outs, getall)
     IN /\ Install(w, fdt)
        /\ dotfile' = IF dotfile = "file" /\ "clean" \in w.cmds THEN "none"
                      ELSE dotfile
        /\ ret' = [op |-> "sync", path |-> CtlPath, res |-> "ok",
                   manual_merge |-> rwlock.manual_merge, outs |-> outs,
                   trace |-> w.trace, cmds |-> w.cmds,
                   merged |-> w.merged, after |-> w.tree,
                   ncommit |-> Len(w.log) - Len(log)]
        /\ ctl' = [ctl EXCEPT !.todo = Tail(@),
                              !.ran = Append(@, ctl.todo[1])]
  /\ rwlock' = Free
  /\ UNCHANGED <<fdt, opened_copies, hpath, hw, pw, flushed, steps, getall, dirs>>

\* dotcommand's `git annex get <pathspec>`, run without the lock.
ctlGet ==
  /\ ctl # Idle /\ ctl.todo # <<>> /\ ctl.todo[1].kind = "get"
  /\ \E avail \in BOOLEAN :
       LET w == GitAnnexGet(World, ctl.todo[1].path, avail)
       IN /\ objs' = w.objs
          /\ inodes' = w.ino
  /\ ctl' = [ctl EXCEPT !.todo = Tail(@), !.ran = Append(@, ctl.todo[1])]
  /\ UNCHANGED <<tree, index, head, log, fdt, opened_copies, hpath, hw, pw,
                 flushed, rwlock, ret, steps, getall, dotfile, dirs>>

\* return len(data)
ctlReturn ==
  /\ ctl # Idle /\ ctl.todo = <<>>
  /\ ret' = [op |-> "write", path |-> CtlPath, res |-> DataLen(ctl.data)]
  /\ ctl' = Idle
  /\ UNCHANGED <<filevars, rwlock, steps, getall, dotfile, dirs>>

\* ------------------------------------------------------------ special path
\* The callbacks with ./.command as their path, and the directories.
\* ShareBox.open on the control file: os.open('/dev/null', flags).
openCtl ==
  /\ FreeFds(fdt) # {}
  /\ LET d == NewFd(fdt) IN
     /\ fdt' = [fdt EXCEPT ![d] = [ino |-> 0, mode |-> "null"]]
     /\ hpath' = [hpath EXCEPT ![d] = CtlPath]
     /\ ret' = Result("open", CtlPath, d, "ok")
  /\ UNCHANGED <<tree, inodes, objs, index, head, log, opened_copies, rwlock,
                 hw, pw, flushed, ctlvars>>

\* ShareBox.create has no test for the control file: os.open('./.command',
\* O_WRONLY | O_CREAT, mode) makes a file of that name in the backing
\* directory, or opens what is there (EISDIR on a directory).
createCtl ==
  /\ FreeFds(fdt) # {}
  /\ LET d == NewFd(fdt) IN
     IF dotfile = "dir"
     THEN /\ ret' = Result("create", CtlPath, 0, "EISDIR")
          /\ UNCHANGED <<fdt, hpath, dotfile>>
     ELSE /\ fdt' = [fdt EXCEPT ![d] = [ino |-> 0, mode |-> "w"]]
          /\ hpath' = [hpath EXCEPT ![d] = CtlPath]
          /\ dotfile' = "file"
          /\ ret' = Result("create", CtlPath, d, "ok")
  /\ UNCHANGED <<tree, inodes, objs, index, head, log, opened_copies, rwlock,
                 hw, pw, flushed, getall, dirs, ctl>>

\* ShareBox.read, flush and fsync on the control file: a bare `return`.
HandleOps == {"read", "flush", "fsync"}
HandleReply(op) == "None"

handleCtl(op, fh) ==
  /\ hpath[fh] = CtlPath
  /\ ret' = Result(op, CtlPath, fh, HandleReply(op))
  /\ UNCHANGED <<filevars, rwlock, ctlvars>>

\* chmod, chown, utimens, unlink, symlink and rename (from and to) raise
\* FuseOSError(EACCES) on the control file before they take the lock; truncate
\* has a bare `return`.
MetaOps ==
  {"chmod", "chown", "truncate", "utimens", "unlink", "symlink",
   "rename from", "rename to"}
MetaReplyQuiet(op) == "None"
MetaReply(op) == IF op = "truncate" THEN "None" ELSE "EACCES"

metaCtl(op) ==
  /\ ret' = Result(op, CtlPath, 0, MetaReply(op))
  /\ UNCHANGED <<filevars, rwlock, ctlvars>>

\* The directories a run makes: d in the root, e and .command in d.
DirPaths == {"d", "d/e", "d/.command"}
Root == "./"
Parent(dp) == IF dp = "d" THEN Root ELSE "d"
Name(dp) == IF dp = "d" THEN "d" ELSE IF dp = "d/e" THEN "e" ELSE CtlPath

\* mkdir = os.mkdir: the kernel sends it for a name that does not exist in a
\* directory that does.  The control file is no exception.
mkdir(dp) ==
  /\ IF dp = CtlPath
     THEN dotfile = "none" /\ dotfile' = "dir" /\ dirs' = dirs
     ELSE /\ dp \notin dirs
          /\ Parent(dp) = Root \/ Parent(dp) \in dirs
          /\ dirs' = dirs \cup {dp}
          /\ dotfile' = dotfile
  /\ ret' = Result("mkdir", dp, 0, "ok")
  /\ UNCHANGED <<filevars, rwlock, getall, ctl>>

\* rmdir = os.rmdir, of a directory that is empty.
rmdir(dp) ==
  /\ IF dp = CtlPath
     THEN dotfile = "dir" /\ dotfile' = "none" /\ dirs' = dirs
     ELSE /\ dp \in dirs
          /\ \A c \in dirs : Parent(c) # dp
          /\ dirs' = dirs \ {dp}
          /\ dotfile' = dotfile
  /\ ret' = Result("rmdir", dp, 0, "ok")
  /\ UNCHANGED <<filevars, rwlock, getall, ctl>>

\* os.listdir(path): the names the backing directory has in path.
ListDir(path) ==
  IF path = Root
  THEN {p \in Paths : tree[p] # NoEnt}
         \cup {Name(dp) : dp \in {c \in dirs : Parent(c) = Root}}
         \cup (IF dotfile # "none" THEN {CtlPath} ELSE {})
  ELSE {Name(dp) : dp \in {c \in dirs : Parent(c) = path}}

\* What readdir puts before the names of os.listdir.
ReaddirFixedAll(path) == <<".", "..", CtlPath>>
ReaddirFixed(path) ==
  IF path = Root THEN <<".", "..", CtlPath>> ELSE <<".", "..">>

\* ShareBox.readdir of the root or of a directory: a list, its first part in
\* order (fixed), then the names of os.listdir in no order of ours (names).
readdir(path) ==
  /\ path = Root \/ path \in dirs
  /\ ret' = [op |-> "readdir", path |-> path, res |-> "ok",
             fixed |-> ReaddirFixed(path), names |-> ListDir(path)]
  /\ UNCHANGED <<filevars, rwlock, ctlvars>>

\* ------------------------------------------------------------ specification
\* A run starts at most n callbacks; a callback that holds the lock always
\* finishes.
Starts(n) == steps < n /\ steps' = steps + 1 /\ UNCHANGED ctlvars
Ends == steps' = steps /\ UNCHANGED ctlvars

Next ==
  \/ Starts(MaxSteps) /\ \E p \in Paths : create(p)
  \/ Starts(MaxSteps) /\ \E p \in Paths : open(p)
  \/ Starts(MaxSteps) /\ \E fh \in Fds, off \in Offsets, b \in WriteBytes :
                            writeBegin(fh, off, b)
  \/ Ends /\ writeEnd
  \/ Starts(MaxSteps) /\ \E fh \in Fds : readBegin(fh)
  \/ Ends /\ readEnd
  \/ Starts(MaxSteps) /\ \E fh \in Fds : fsyncBegin(fh)
  \/ Ends /\ fsyncEnd
  \/ Starts(MaxSteps) /\ \E fh \in Fds : releaseBegin(fh)
  \/ Ends /\ releaseEnd
  \/ Starts(MaxSteps) /\ \E p \in Paths : chattrBegin(p)
  \/ Ends /\ chattrEnd
  \/ Starts(MaxSteps) /\ \E p \in Paths, n \in {0, MaxLen} : truncateBegin(p, n)
  \/ Ends /\ truncateEnd
  \/ Starts(MaxSteps) /\ \E old \in Paths, new \in Paths : renameBegin(old, new)
  \/ Ends /\ renameEnd
  \/ Starts(MaxSteps) /\ \E p \in Paths : unlinkBegin(p)
  \/ Ends /\ unlinkEnd
  \/ Starts(MaxSteps) /\ \E p \in Paths : symlinkBegin(p)
  \/ Ends /\ symlinkEnd

Spec == Init /\ [][Next]_vars

\* The callbacks on open handles alone, for a longer run: create, open, read,
\* write, flush/fsync, release and truncate.
NextHandles ==
  \/ Starts(MaxHandleSteps) /\ \E p \in Paths : create(p)
  \/ Starts(MaxHandleSteps) /\ \E p \in Paths : open(p)
  \/ Starts(MaxHandleSteps) /\ \E fh \in Fds, off \in Offsets, b \in WriteBytes :
                                  writeBegin(fh, off, b)
  \/ Ends /\ writeEnd
  \/ Starts(MaxHandleSteps) /\ \E fh \in Fds : readBegin(fh)
  \/ Ends /\ readEnd
  \/ Starts(MaxHandleSteps) /\ \E fh \in Fds : fsyncBegin(fh)
  \/ Ends /\ fsyncEnd
  \/ Starts(MaxHandleSteps) /\ \E fh \in Fds : releaseBegin(fh)
  \/ Ends /\ releaseEnd
  \/ Starts(MaxHandleSteps) /\ \E p \in Paths, n \in {0, MaxLen} : truncateBegin(p, n)
  \/ Ends /\ truncateEnd

SpecHandles == Init /\ [][NextHandles]_vars

\* The mount with its control file: the callbacks on open handles, the writes
\* to the control file and the sync runs they start.  getall is either way.
InitControl ==
  /\ tree = [p \in Paths |-> IF p = "a.txt" THEN Link(<<0, 0>>) ELSE NoEnt]
  /\ inodes = [i \in Inos |-> IF i = 1 THEN <<0, 0>> ELSE NoIno]
  /\ objs = [c \in Contents |-> IF c = <<0, 0>> THEN 1 ELSE 0]
  /\ index = [p \in Paths |-> IF p = "a.txt" THEN Link(<<0, 0>>) ELSE NoEnt]
  /\ head = index
  /\ log = <<>>
  /\ fdt = [d \in Fds |-> NoFd]
  /\ opened_copies = [d \in Fds |-> 0]
  /\ hpath = [d \in Fds |-> NoPath]
  /\ rwlock = Free
  /\ ret = Result("none", NoPath, 0, "ok")
  /\ hw = [d \in Fds |-> Unwritten]
  /\ pw = [p \in Paths |-> Unwritten]
  /\ flushed = [d \in Fds |-> FALSE]
  /\ steps = 0
  /\ getall \in BOOLEAN
  /\ dotfile = "none"
  /\ dirs = {}
  /\ ctl = Idle

NextControl ==
  \/ Starts(MaxCtlSteps) /\ \E p \in Paths : create(p)
  \/ Starts(MaxCtlSteps) /\ \E p \in Paths : open(p)
  \/ Starts(MaxCtlSteps) /\ \E fh \in Fds, off \in Offsets, b \in WriteBytes :
                               writeBegin(fh, off, b)
  \/ Ends /\ writeEnd
  \/ Starts(MaxCtlSteps) /\ \E fh \in Fds : releaseBegin(fh)
  \/ Ends /\ releaseEnd
  \/ CtlStarts(MaxCtlSteps) /\ \E data \in Payloads : ctlWrite(data)
  \/ syncBegin
  \/ syncBlock
  \/ \E outs \in [1 .. Len(Remotes) -> MergeOutcomes] : syncEnd(outs)
  \/ ctlGet
  \/ ctlReturn

SpecControl == InitControl /\ [][NextControl]_vars

\* Writes to the control file alone, after a create or an open.
NextCommand ==
  \/ Starts(MaxCmdSteps) /\ \E p \in Paths : create(p)
  \/ Starts(MaxCmdSteps) /\ \E p \in Paths : open(p)
  \/ CtlStarts(MaxCmdSteps) /\ \E data \in Payloads : ctlWrite(data)
  \/ syncBegin
  \/ syncBlock
  \/ \E outs \in [1 .. Len(Remotes) -> MergeOutcomes] : syncEnd(outs)
  \/ ctlGet
  \/ ctlReturn

SpecCommand == InitControl /\ [][NextCommand]_vars

\* Opens, writes and releases alone, for the handles of one path.
NextUnlock ==
  \/ Starts(MaxUnlockSteps) /\ \E p \in Paths : open(p)
  \/ Starts(MaxUnlockSteps) /\ \E fh \in Fds, off \in Offsets, b \in WriteBytes :
                                  writeBegin(fh, off, b)
  \/ Ends /\ writeEnd
  \/ Starts(MaxUnlockSteps) /\ \E fh \in Fds : releaseBegin(fh)
  \/ Ends /\ releaseEnd

SpecUnlock == Init /\ [][NextUnlock]_vars

\* Every callback that takes the lock, with create and open, and the sync
\* runs and gets that writes to the control file ask for.
NextLock ==
  \/ Starts(MaxLockSteps) /\ \E p \in Paths : create(p)
  \/ Starts(MaxLockSteps) /\ \E p \in Paths : open(p)
  \/ Starts(MaxLockSteps) /\ \E fh \in Fds, off \in Offsets, b \in WriteBytes :
                                writeBegin(fh, off, b)
  \/ Ends /\ writeEnd
  \/ Starts(MaxLockSteps) /\ \E fh \in Fds : readBegin(fh)
  \/ Ends /\ readEnd
  \/ Starts(MaxLockSteps) /\ \E fh \in Fds : fsyncBegin(fh)
  \/ Ends /\ fsyncEnd
  \/ Starts(MaxLockSteps) /\ \E fh \in Fds : releaseBegin(fh)
  \/ Ends /\ releaseEnd
  \/ Starts(MaxLockSteps) /\ \E p \in Paths : chattrBegin(p)
  \/ Ends /\ chattrEnd
  \/ Starts(MaxLockSteps) /\ \E p \in Paths, n \in {0, MaxLen} : truncateBegin(p, n)
  \/ Ends /\ truncateEnd
  \/ Starts(MaxLockSteps) /\ \E old \in Paths, new \in Paths : renameBegin(old, new)
  \/ Ends /\ renameEnd
  \/ Starts(MaxLockSteps) /\ \E p \in Paths : unlinkBegin(p)
  \/ Ends /\ unlinkEnd
  \/ Starts(MaxLockSteps) /\ \E p \in Paths : symlinkBegin(p)
  \/ Ends /\ symlinkEnd
  \/ CtlStarts(MaxLockSteps) /\
       \E data \in {<<"sync">>, <<"merge">>, <<"get a.txt">>} : ctlWrite(data)
  \/ syncBegin
  \/ syncBlock
  \/ \E outs \in [1 .. Len(Remotes) -> MergeOutcomes] : syncEnd(outs)
  \/ ctlGet
  \/ ctlReturn

SpecLock == InitControl /\ [][NextLock]_vars

\* The callbacks on the control file and on directories, with create, open
\* and release on the files.
NextSpecial ==
  \/ Starts(MaxSpecialSteps) /\ \E p \in Paths : create(p)
  \/ Starts(MaxSpecialSteps) /\ \E p \in Paths : open(p)
  \/ Starts(MaxSpecialSteps) /\ \E fh \in Fds : releaseBegin(fh)
  \/ Ends /\ releaseEnd
  \/ CtlStarts(MaxSpecialSteps) /\ openCtl
  \/ CtlStarts(MaxSpecialSteps) /\ createCtl
  \/ CtlStarts(MaxSpecialSteps) /\ \E op \in HandleOps, fh \in Fds : handleCtl(op, fh)
  \/ CtlStarts(MaxSpecialSteps) /\ \E op \in MetaOps : metaCtl(op)
  \/ CtlStarts(MaxSpecialSteps) /\ \E dp \in DirPaths \cup {CtlPath} : mkdir(dp)
  \/ CtlStarts(MaxSpecialSteps) /\ \E dp \in DirPaths \cup {CtlPath} : rmdir(dp)
  \/ CtlStarts(MaxSpecialSteps) /\ \E path \in DirPaths \cup {Root} : readdir(path)

SpecSpecial == Init /\ [][NextSpecial]_vars

\* ------------------------------------------------------------ properties
\* The bytes a read through path p would find.
PathBytes(p) ==
  IF tree[p].k = "file" THEN inodes[tree[p].ino]
  ELSE IF tree[p].k = "link" /\ objs[tree[p].key] # 0 THEN inodes[objs[tree[p].key]]
  ELSE <<>>

\* The bytes h (offset -> byte written, -1: none) are all in content c.
Holds(c, h) == \A o \in Offsets : h[o] # -1 => (Len(c) > o /\ c[o + 1] = h[o])

\* The bytes of the object that the last revision records for path p.
CommittedBytes(p) ==
  IF head[p].k = "link" /\ objs[head[p].key] # 0 THEN inodes[objs[head[p].key]]
  ELSE <<>>

\* C1 (invariant I1): whenever no callback holds the lock, every regular file
\* of the backing directory that is not ignored is the writable copy of a
\* handle that has an entry in opened_copies (anything else that is tracked is
\* a symlink).
C1_TrackedFilesAreLinksOrOpenCopies ==
  ~ Held =>
    \A p \in Paths :
      (tree[p].k = "file" /\ ~ ignored(World, p)) =>
        \E fh \in Fds : /\ opened_copies[fh] # 0
                        /\ fdt[opened_copies[fh]].ino = tree[p].ino

\* C2 (concurrent writes): every write through a handle that open returned for
\* an annexed path succeeds, and once the last handle on a path is released
\* the bytes written through its handles are in the content the path leads to.
C2_ConcurrentWritesAllLand ==
  /\ (ret.op = "write" /\ ret.oa) => ret.res = "ok"
  /\ \A p \in Paths :
       (~ Held /\ ret.op = "release" /\ ret.path = p /\ HandlesOn(p) = {})
         => Holds(PathBytes(p), pw[p])

\* C3 (round trip on one handle): a read through a handle that came from open
\* on an annexed path or from create, after that handle has written and then
\* flushed, succeeds and returns the bytes written.
C3_ReadReturnsWhatWasWritten ==
  (/\ ret.op = "read"
   /\ fdt[ret.fh].mode \in {"r", "w"}
   /\ ret.hw # Unwritten /\ ret.flushed)
    => (ret.res = "ok" /\ Holds(ret.data, ret.hw))

\* C4 (release observes the handle's writes): the release of a handle on a
\* path that is not ignored, after the handle has written, adds exactly one
\* revision, "changed <path>", and the content recorded for the path holds
\* the bytes the handle wrote.
C4_ReleaseCommitsItsWrites ==
  (ret.op = "release" /\ ~ ret.ign /\ ret.hw # Unwritten)
    => /\ ret.ncommit = 1
       /\ ret.msg = "changed"
       /\ Holds(CommittedBytes(ret.path), ret.hw)

\* C5 (objects are immutable): no step changes the bytes of an object that is
\* in the object store, or takes it out of the store.
C5_ObjectsNeverChange ==
  [][\A c \in Contents :
       objs[c] # 0 => (objs'[c] = objs[c] /\ inodes'[objs[c]] = inodes[objs[c]])]_vars

\* C6 (open read-only, release): the release of a handle that open returned
\* for an annexed path and that never wrote adds no revision.
C6_ReadOnlyReleaseAddsNoRevision ==
  (ret.op = "release" /\ ret.oa /\ ~ ret.cow /\ ret.hw = Unwritten)
    => ret.ncommit = 0

\* How the code classified the path of the finished callback when it decided
\* whether to commit (symlink decides once the link exists).
SawTracked == IF ret.op = "symlink" THEN ~ ret.ign2 ELSE ~ ret.ign

\* C7 (one revision per mutating operation): chmod, chown, truncate, symlink,
\* unlink, rename and a release after writes each add exactly one revision
\* when the code does not classify the path as ignored.
C7_ExactlyOneRevision ==
  (/\ ret.res = "ok"
   /\ SawTracked
   /\ \/ ret.op \in {"chattr", "truncate", "symlink", "unlink", "rename"}
      \/ (ret.op = "release" /\ ret.hw # Unwritten))
    => ret.ncommit = 1

\* C8 (ignored paths never reach the revision log): a create, write, flush,
\* fsync, release, symlink or unlink on a path that the code classifies as
\* ignored, before and after, runs none of add, rm and commit and adds no
\* revision.
C8_IgnoredPathNoStoreCommand ==
  (/\ ret.op \in {"create", "write", "fsync", "release", "symlink", "unlink"}
   /\ ret.ign /\ ret.ign2)
    => (ret.cmds \cap {"add", "rm", "commit"} = {} /\ ret.ncommit = 0)

C8_Witness ==
  /\ ret.op = "release" /\ ret.path = "c.log"
  /\ ret.ign /\ ret.ign2 /\ ret.hw # Unwritten

\* C9 (rename's commit rule), for old # new, by what ignored() returns for
\* old and new once the file is renamed: one ignored, exactly one revision
\* (old removed and "moved to ignored", or new added and "moved from
\* ignored"); neither, exactly one revision made by git mv and "moved"; both,
\* no store command and no revision.
C9_RenameCommitRule ==
  (ret.op = "rename" /\ ret.path # ret.new) =>
    /\ (~ ret.ign /\ ret.ign2) =>
         (ret.ncommit = 1 /\ ret.msg = "moved to ignored" /\ "rm" \in ret.cmds)
    /\ (ret.ign /\ ~ ret.ign2) =>
         (ret.ncommit = 1 /\ ret.msg = "moved from ignored" /\ "add" \in ret.cmds)
    /\ (~ ret.ign /\ ~ ret.ign2) =>
         (ret.ncommit = 1 /\ ret.msg = "moved" /\ "mv" \in ret.cmds)
    /\ (ret.ign /\ ret.ign2) => (ret.cmds = {} /\ ret.ncommit = 0)

\* C10 (rename(x, x) is a no-op): the step in which rename(x, x) runs leaves
\* the backing directory, the index, opened_copies and the revision log as
\* they were.
C10_RenameSameIsNoOp ==
  [][(rwlock.op = "rename" /\ rwlock.path = rwlock.new /\ rwlock' = Free)
       => (tree' = tree /\ index' = index /\ opened_copies' = opened_copies
           /\ log' = log)]_vars

\* The merge of every remote failed in the sync run with this trace: each was
\* followed by a reset.
AllMergesFailed(trace) ==
  \A i \in 1 .. Len(Remotes) :
    \E j \in 1 .. Len(trace) : trace[j] = <<"reset", Remotes[i]>>

\* C11 (aborted merge): a sync run in which the merge of every remote fails
\* leaves the working tree as it was when the run started.
C11_AbortedSyncKeepsTree ==
  [][(rwlock.op = "sync" /\ rwlock' = Free /\ AllMergesFailed(ret'.trace))
       => tree' = tree]_vars

\* The places of the trace where the command c ran.
Where(trace, c) == {j \in 1 .. Len(trace) : trace[j][1] = c}

\* C12 (conflict fallback): in a sync run without manual_merge every remote is
\* merged, in order; a merge that succeeds is followed by the commit "merged
\* with <remote>", one that fails by reset --hard, clean -f and one "manual
\* merge required" notification, in this order; and when one merge succeeds
\* and one fails the working tree at the end is the tree the merge that
\* succeeded left.
C12_ConflictFallback ==
  (ret.op = "sync" /\ ~ ret.manual_merge) =>
    LET t == ret.trace
        at(j) == IF j <= Len(t) THEN t[j] ELSE <<"end">>
        merges == [k \in 1 .. Len(Remotes) |->
                     CHOOSE j \in Where(t, "merge") : t[j][2] = Remotes[k]]
    IN /\ Cardinality(Where(t, "merge")) = Len(Remotes)
       /\ \A k \in 1 .. Len(Remotes) :
            \E j \in Where(t, "merge") : t[j][2] = Remotes[k]
       /\ \A k \in 1 .. Len(Remotes) - 1 : merges[k] < merges[k + 1]
       /\ \A j \in Where(t, "merge") :
            IF t[j][3] = "ok"
            THEN \/ at(j + 1) = <<"commit", t[j][2]>>
                 \/ at(j + 1) = <<"get", ".">> /\ at(j + 2) = <<"commit", t[j][2]>>
            ELSE /\ at(j + 1) = <<"reset", t[j][2]>>
                 /\ at(j + 2) = <<"clean", t[j][2]>>
                 /\ at(j + 3) = <<"notify", "required">>
       /\ Cardinality(Where(t, "notify"))
            = Cardinality({j \in Where(t, "merge") : t[j][3] = "failed"})
       /\ Cardinality({j \in Where(t, "merge") : t[j][3] = "ok"}) = 1
            => ret.after = ret.merged

\* C13: a read of the control file fails with EACCES, whatever the size, the
\* offset and the handle.
C13_ControlReadDenied ==
  (ret.op = "read" /\ ret.path = CtlPath) => ret.res = "EACCES"

\* A callback of MetaOps on the control file has just returned.
MetaReturns == ret' # ret /\ ret'.path = CtlPath /\ ret'.op \in MetaOps

C16_NoControlFileOnDisk == dotfile = "none"

\* C17: the listing of the root has .command among its entries; the listing of
\* another directory is ".", ".." and the names the backing directory has
\* there, with no entry added.
C17_ReaddirSyntheticEntry ==
  ret.op = "readdir" =>
    /\ ret.names = ListDir(ret.path)
    /\ IF ret.path = Root
       THEN \E i \in 1 .. Len(ret.fixed) : ret.fixed[i] = CtlPath
       ELSE ret.fixed = <<".", "..">>

\* A directory that holds a real directory named .command was listed.
C17_Witness ==
  /\ ret.op = "readdir" /\ ret.path = "d"
  /\ CtlPath \in ret.names

\* What the claim has a payload do: per line, in order.
RECURSIVE ExpectedRuns(_)
ExpectedRuns(data) ==
  IF Len(data) = 0 THEN <<>>
  ELSE (CASE data[1] = "sync" -> <<[kind |-> "sync", manual_merge |-> FALSE]>>
          [] data[1] = "merge" -> <<[kind |-> "sync", manual_merge |-> TRUE]>>
          [] data[1] = "get a.txt" -> <<[kind |-> "get", path |-> "a.txt"]>>
          [] OTHER -> <<>>)
       \o ExpectedRuns(Tail(data))

\* C15: a write to the control file starts without changing anything; each
\* step it then takes is the run its next recognised line asks for (a sync
\* run under the lock with that line's manual_merge, or one git annex get
\* that changes nothing but the objects present); it returns len(data) once
\* every such line has had its run, and a payload with none goes from start
\* to return with no command and no change.
C15_ControlWrite ==
  [][ctl' # ctl =>
       IF ctl = Idle
       THEN UNCHANGED <<filevars, rwlock, ret>>
       ELSE IF ctl' = Idle
       THEN /\ ret'.op = "write" /\ ret'.res = DataLen(ctl.data)
            /\ ctl.ran = ExpectedRuns(ctl.data)
            /\ UNCHANGED <<filevars, rwlock>>
       ELSE LET n == Len(ctl.ran) + 1
                exp == ExpectedRuns(ctl.data)
            IN /\ n <= Len(exp)
               /\ ctl'.ran = Append(ctl.ran, exp[n])
               /\ exp[n].kind = "sync" =>
                    /\ rwlock.op = "sync" /\ rwlock' = Free
                    /\ rwlock.manual_merge = exp[n].manual_merge
                    /\ ret'.op = "sync"
                    /\ ret'.manual_merge = exp[n].manual_merge
               /\ exp[n].kind = "get" =>
                    UNCHANGED <<tree, index, head, log, fdt, opened_copies,
                                hpath, rwlock>>]_vars

\* A payload of two commands is about to return: its merge has run, then its
\* get.
C15_Witness ==
  /\ ctl # Idle /\ ctl.todo = <<>>
  /\ ctl.data = <<"merge", "get a.txt">>
  /\ DataLen(ctl.data) = 15
  /\ ctl.ran = <<[kind |-> "sync", manual_merge |-> TRUE],
                 [kind |-> "get", path |-> "a.txt"]>>

\* C18: every entry of opened_copies belongs to a handle that is open and
\* holds one open write-only descriptor, which no other entry holds; every
\* open descriptor that is no handle is held by such an entry.  So a released
\* handle has no entry and its descriptor is closed, and with no handle open
\* the table is empty and no descriptor is left.
C18_OpenFileTable ==
  /\ \A fh \in Fds :
       opened_copies[fh] # 0 =>
         /\ hpath[fh] # NoPath
         /\ fdt[opened_copies[fh]] # NoFd
         /\ fdt[opened_copies[fh]].mode = "w"
         /\ \A other \in Fds \ {fh} : opened_copies[other] # opened_copies[fh]
  /\ \A d \in Fds :
       (fdt[d] # NoFd /\ hpath[d] = NoPath) =>
         \E fh \in Fds : hpath[fh] # NoPath /\ opened_copies[fh] = d

\* A handle that had a writable copy has been released, and nothing is open.
C18_Witness ==
  /\ ret.op = "release" /\ ret.cow
  /\ \A d \in Fds : opened_copies[d] = 0 /\ fdt[d] = NoFd /\ hpath[d] = NoPath

\* C20: a read, a flush or an fsync on a handle, in the step that takes the
\* lock and in the step that returns, runs no store command, adds no revision, leaves
\* opened_copies and the descriptors as they are, and leaves every path what
\* it was (annexed link or writable copy).
C20_ReadsNeverUnlockNorCommit ==
  [][(/\ rwlock' # rwlock
      /\ rwlock.op \in {"read", "fsync"} \/ rwlock'.op \in {"read", "fsync"}) =>
       /\ UNCHANGED <<tree, inodes, objs, index, head, log, fdt, opened_copies>>
       /\ rwlock' # Free => rwlock'.cmds = {}
       /\ rwlock' = Free => (ret'.cmds = {} /\ ret'.ncommit = 0)]_vars

\* An fsync has returned on a handle that has written to its writable copy:
\* the entry is still there and the copy is not committed.
C20_Witness ==
  /\ ret.op = "fsync" /\ ret.hw # Unwritten /\ ret.ncommit = 0
  /\ hpath[ret.fh] = ret.path
  /\ opened_copies[ret.fh] # 0
  /\ tree[ret.path] # head[ret.path]

\* The holder of the lock can take the step that gives it back: the guards of
\* writeEnd, releaseEnd and syncEnd.
CanGiveBack ==
  \/ rwlock.op \in {"write", "release"}
  \/ rwlock.op = "sync" /\ ~ rwlock.blocked

\* C19: no deadlock.  A callback that holds the lock can always take the step
\* that gives it back, so that under fair scheduling it eventually does and
\* the callbacks that wait for the lock get it.
C19_LockIsGivenBack == Held => CanGiveBack

\* A write has just taken the lock and its guard ran git annex unlock.
WriteUnlocks ==
  rwlock' # rwlock /\ rwlock'.op = "write" /\ "unlock" \in rwlock'.cmds

\* C21: a handle is unlocked for at most once between its open and its
\* release.  A write that runs git annex unlock does so for a handle with no
\* entry in opened_copies and installs one; an entry is installed by such a
\* write only; and an installed entry is neither replaced nor removed while
\* the handle is open.
C21_UnlockAtMostOncePerOpen ==
  [][/\ WriteUnlocks =>
          (opened_copies[rwlock'.fh] = 0 /\ opened_copies'[rwlock'.fh] # 0)
     /\ \A fh \in Fds :
          (opened_copies[fh] = 0 /\ opened_copies'[fh] # 0) =>
            (WriteUnlocks /\ rwlock'.fh = fh)
     /\ \A fh \in Fds :
          (opened_copies[fh] # 0 /\ hpath'[fh] # NoPath) =>
            opened_copies'[fh] = opened_copies[fh]]_vars

\* A handle that has a writable copy has written again after the release of
\* another handle made its path an annexed link again: no second unlock.
C21_Witness ==
  /\ ret.op = "write" /\ ret.res = "ok"
  /\ ret.ann /\ ret.cow /\ ret.cmds = {}
  /\ hpath[ret.fh] = ret.path /\ opened_copies[ret.fh] # 0

\* C22: the lock passes from one callback to the next only through free, and
\* every step that changes opened_copies, the index or the revisions (an add,
\* a commit, a rm, a mv, a merge, a reset) is the step of a guarded block,
\* rename, symlink, unlink or sync run that takes the free lock or gives back
\* the lock it holds.
C22_MutualExclusion ==
  [][/\ rwlock' # rwlock =>
          \/ rwlock = Free
          \/ rwlock' = Free
          \/ rwlock.op = "sync" /\ rwlock'.op = "sync"
     /\ (\/ opened_copies' # opened_copies
         \/ index' # index \/ head' # head \/ log' # log) =>
          \/ rwlock = Free /\ rwlock' # Free
          \/ rwlock # Free /\ rwlock' = Free]_vars

\* A sync run asked for through the control file waits while a write holds
\* the lock.
C22_Witness ==
  /\ Held /\ rwlock.op = "write"
  /\ ctl # Idle /\ ctl.todo # <<>> /\ ctl.todo[1].kind = "sync"

\* An open of an annexed path has just returned.
OpenReturns == ret' # ret /\ ret'.op = "open" /\ ret'.path # CtlPath /\ ret'.ann

\* C23: an open of an annexed path runs git annex get exactly when the object
\* is missing and never git annex unlock; if the object is missing after that
\* it fails with EACCES, with no descriptor and no handle made; otherwise it
\* returns a new read-only descriptor on the object.  The tree, the index, the
\* revisions, opened_copies and the lock are as before.
C23_OpenAnnexed ==
  [][OpenReturns =>
       LET p == ret'.path
           key == tree[p].key
       IN /\ UNCHANGED <<tree, index, head, log, opened_copies, rwlock>>
          /\ "unlock" \notin ret'.cmds
          /\ ("get" \in ret'.cmds) <=> (objs[key] = 0)
          /\ IF objs'[key] = 0
             THEN ret'.res = "EACCES" /\ fdt' = fdt /\ hpath' = hpath
             ELSE /\ ret'.res = "ok"
                  /\ fdt[ret'.fh] = NoFd
                  /\ fdt'[ret'.fh] = [ino |-> objs'[key], mode |-> "r"]
                  /\ hpath'[ret'.fh] = p]_vars

\* An open was refused: the object was still missing after git annex get.
C23_Witness ==
  /\ ret.op = "open" /\ ret.ann /\ ret.res = "EACCES"
  /\ "get" \in ret.cmds
  /\ annexed(tree, ret.path) /\ objs[tree[ret.path].key] = 0

\* A chmod, chown or truncate takes the lock, and gives it back.
GuardEnters == rwlock = Free /\ rwlock'.op \in {"chattr", "truncate"}
GuardReturns == rwlock.op \in {"chattr", "truncate"} /\ rwlock' = Free

\* C24: a chmod, chown or truncate of a path that is annexed when it takes the
\* lock runs git annex unlock on entry and git annex add and git commit
\* "changed <path>" on exit, whether its body succeeded or raised, and leaves
\* the path an annexed link and the lock free; on a path that is not annexed
\* it runs no store command; in both cases opened_copies and the descriptors
\* are as before.
C24_UnlockGuardExit ==
  [][/\ GuardEnters =>
          /\ rwlock'.cmds = (IF rwlock'.ann THEN {"unlock"} ELSE {})
          /\ UNCHANGED <<opened_copies, fdt>>
     /\ GuardReturns =>
          /\ IF rwlock.ann
             THEN /\ ret'.cmds = {"unlock", "add", "commit"}
                  /\ Len(log') > Len(log) =>
                       log' = Append(log, Msg("changed", rwlock.path))
                  /\ annexed(tree', rwlock.path)
             ELSE ret'.cmds = {}
          /\ UNCHANGED <<opened_copies, fdt>>]_vars

\* A chmod or chown of an annexed path whose object is missing has failed, and
\* its guard still ran add and commit.
C24_Witness ==
  /\ ret.op = "chattr" /\ ret.ann /\ ret.res = "ENOENT"
  /\ ret.cmds = {"unlock", "add", "commit"}
  /\ annexed(tree, ret.path) /\ ~ Held

====
